---- MODULE Spec2Model ----
(***************************************************************************)
(* Offline synchronisation engine of the note taking application:          *)
(* the client's mutation queue and sync cycle (frontend/src/lib/sync.js),  *)
(* the editor's save path (app/page.js) and the server's batch route       *)
(* POST /notes/sync with the body sanitiser in front of it.                *)
(*                                                                         *)
(* Identifiers are integers: NULL is JavaScript's null/undefined, local    *)
(* (Dexie auto-increment) ids are 1, 2, ..., server ids (ObjectIds) are    *)
(* ServerIdBase + 1, ServerIdBase + 2, ...  Strings are sequences of       *)
(* characters.  Timestamps are integers read from one clock, now.          *)
(***************************************************************************)
EXTENDS Naturals, Integers, Sequences, FiniteSets, TLC

\* ------------------------------------------------------------------ bounds
MaxEditOps == 3   \* budgeted steps of a first editing session
MaxSyncedOps == 3 \* budgeted steps of a later editing session
MaxBackoffOps == 7 \* faults and saves of a run of failing cycles
MaxOps == 2       \* budgeted steps of one run: saves, deletes, faults, remote
                  \* edits and clock ticks together

\* ------------------------------------------------------- program constants
NULL == 0
ServerIdBase == 100
FLOOR_RETRY_DELAY == 1000
MAX_RETRY_DELAY == 60000

Me == "me"
Other == "other"

\* The characters the editor can type in this model.  No string over them
\* contains "javascript:" or an "on...=" handler.
Titles == { <<"a">>, <<"b">> }
Contents == { <<"x">>, <<"<", "y", ">">> }

Min(a, b) == IF a <= b THEN a ELSE b

SeqToSet(s) == { s[i] : i \in 1..Len(s) }

\* ------------------------------------------------------------- sanitize.js
RECURSIVE TrimStart(_)
TrimStart(s) ==
    IF Len(s) > 0 /\ Head(s) = " " THEN TrimStart(Tail(s)) ELSE s

RECURSIVE TrimEnd(_)
TrimEnd(s) ==
    IF Len(s) > 0 /\ s[Len(s)] = " " THEN TrimEnd(SubSeq(s, 1, Len(s) - 1)) ELSE s

IsAngle(c) == c \in {"<", ">"}

\* str.trim().replace(/[<>]/g, ''); the two further replacements remove
\* "javascript:" and "on\w+=", which no string of this model contains.
sanitizeString(str) ==
    SelectSeq(TrimEnd(TrimStart(str)), LAMBDA c : ~IsAngle(c))

\* One element of req.body.notes after sanitizeObject: every string field is
\* sanitised; id and lastModified hold no character the sanitiser touches.
sanitizeNote(n) ==
    [n EXCEPT !.title = sanitizeString(n.title),
              !.content = sanitizeString(n.content)]

sanitizeBody(notes) == [i \in 1..Len(notes) |-> sanitizeNote(notes[i])]

\* ------------------------------------------ server: Note model and routes
\* A document of the notes collection.  updatedAt is the mongoose timestamp,
\* set by every save.
ServerNote(id, title, content, lastModified, updatedAt, userId) ==
    [id |-> id, title |-> title, content |-> content,
     lastModified |-> lastModified, updatedAt |-> updatedAt, userId |-> userId]

NoServerNote == ServerNote(NULL, <<>>, <<>>, 0, 0, Other)

\* Note.findById
HasServerNote(store, id) == \E n \in store : n.id = id
FindById(store, id) == CHOOSE n \in store : n.id = id

\* title: { type: String, required: true }: save() rejects an empty title.
ValidNote(title) == Len(title) > 0

Conflict(id, reason, hasServerNote, serverNote) ==
    [id |-> id, reason |-> reason, hasServerNote |-> hasServerNote,
     serverNote |-> serverNote]

\* The last-write-wins comparison of the route: syncDate >= lastModified.
ClientWins(syncDate, storedDate) == syncDate >= storedDate

\* One iteration of the route's loop over req.body.notes.  res holds the
\* three result lists, the collection (store) and the next id to assign.
SyncOne(syncNote, res, now, user) ==
    LET create ==
            IF ValidNote(syncNote.title)
            THEN LET newNote == ServerNote(ServerIdBase + res.nextId, syncNote.title,
                                           syncNote.content, syncNote.lastModified,
                                           now, user)
                 IN [res EXCEPT !.created = Append(@, newNote),
                                !.store = @ \cup {newNote},
                                !.nextId = @ + 1]
            ELSE [res EXCEPT !.conflicts =
                      Append(@, Conflict(syncNote.id, "validation", FALSE, NoServerNote))]
    IN
    IF syncNote.id # NULL
    THEN IF HasServerNote(res.store, syncNote.id)
         THEN LET existingNote == FindById(res.store, syncNote.id) IN
              IF existingNote.userId # user
              THEN [res EXCEPT !.conflicts =
                        Append(@, Conflict(syncNote.id, "Unauthorized", FALSE, NoServerNote))]
              ELSE IF ClientWins(syncNote.lastModified, existingNote.lastModified)
              THEN IF ValidNote(syncNote.title)
                   THEN LET saved == [existingNote EXCEPT
                                        !.title = syncNote.title,
                                        !.content = syncNote.content,
                                        !.lastModified = syncNote.lastModified,
                                        !.updatedAt = now]
                        IN [res EXCEPT !.updated = Append(@, saved),
                                       !.store = (@ \ {existingNote}) \cup {saved}]
                   ELSE [res EXCEPT !.conflicts =
                        Append(@, Conflict(syncNote.id, "validation", FALSE, NoServerNote))]
              ELSE [res EXCEPT !.conflicts =
                        Append(@, Conflict(syncNote.id, "Server version is newer",
                                           TRUE, existingNote))]
         ELSE create   \* "Note was deleted on server, create new one"
    ELSE create

RECURSIVE SyncLoop(_, _, _, _, _)
SyncLoop(notes, i, res, now, user) ==
    IF i > Len(notes) THEN res
    ELSE SyncLoop(notes, i + 1, SyncOne(notes[i], res, now, user), now, user)

\* router.post('/sync') behind app.use(sanitizeBody).
SyncRoute(notes, srv, now, user) ==
    SyncLoop(sanitizeBody(notes), 1,
             [created |-> <<>>, updated |-> <<>>, conflicts |-> <<>>,
              store |-> srv.store, nextId |-> srv.nextId],
             now, user)

\* router.delete('/:id'): removes the caller's note; 404 and 403 otherwise.
DeleteRoute(store, id, user) ==
    IF HasServerNote(store, id) /\ FindById(store, id).userId = user
    THEN store \ {FindById(store, id)}
    ELSE store

\* router.get('/sync/after/:timestamp'): the caller's notes with
\* updatedAt >= timestamp.
NotesAfter(store, timestamp, user) ==
    { n \in store : n.userId = user /\ n.updatedAt >= timestamp }

\* ---------------------------------------------------------- rateLimiter.js
WINDOW_MS == 900000
API_MAX_REQUESTS == 100
AUTH_MAX_REQUESTS == 5

\* new Map(): no key has a record.
NoRequests == [key \in {} |-> 0]

Record(count, firstRequest, resetTime) ==
    [count |-> count, firstRequest |-> firstRequest, resetTime |-> resetTime]

Put(store, key, record) ==
    [k \in DOMAIN store \cup {key} |-> IF k = key THEN record ELSE store[k]]

\* The middleware rateLimiter(options) returns, applied to a request of key
\* at time now: the store it leaves and whether it called next().  Every
\* middleware the factory returns works on the one module-level requestStore.
rateLimiter(store, key, now, windowMs, maxRequests) ==
    IF key \notin DOMAIN store
    THEN [store |-> Put(store, key, Record(1, now, now + windowMs)), next |-> TRUE]
    ELSE IF now > store[key].resetTime
    THEN [store |-> Put(store, key, Record(1, now, now + windowMs)), next |-> TRUE]
    ELSE LET record == [store[key] EXCEPT !.count = @ + 1] IN
         [store |-> Put(store, key, record), next |-> record.count <= maxRequests]

authRateLimiter(store, key, now) ==
    rateLimiter(store, key, now, WINDOW_MS, AUTH_MAX_REQUESTS)

apiRateLimiter(store, key, now) ==
    rateLimiter(store, key, now, WINDOW_MS, API_MAX_REQUESTS)

\* The cleanup interval: records whose window began more than 15 minutes
\* ago are deleted.
CleanedUp(store, now) ==
    [k \in { k \in DOMAIN store : now - store[k].firstRequest <= WINDOW_MS } |-> store[k]]

\* ------------------------------------------------- client: db.js, sync.js
\* A row of db.syncQueue; data is the payload handed to addToSyncQueue.
Payload(id, title, content, lastModified) ==
    [id |-> id, title |-> title, content |-> content, lastModified |-> lastModified]

QueueEntry(id, noteId, action, data, timestamp) ==
    [id |-> id, noteId |-> noteId, action |-> action, data |-> data,
     timestamp |-> timestamp, retries |-> 0]

\* A row of db.notes.
LocalNote(id, serverId, title, content, lastModified, synced) ==
    [id |-> id, serverId |-> serverId, title |-> title, content |-> content,
     lastModified |-> lastModified, synced |-> synced]

\* Array.prototype.sort((a, b) => b.timestamp - a.timestamp): a stable sort,
\* latest first; entries of equal timestamp keep the order they had.
RECURSIVE InsertDesc(_, _)
InsertDesc(sorted, e) ==
    IF Len(sorted) = 0 THEN <<e>>
    ELSE IF Head(sorted).timestamp >= e.timestamp
         THEN <<Head(sorted)>> \o InsertDesc(Tail(sorted), e)
         ELSE <<e>> \o sorted

RECURSIVE SortLatestFirst(_)
SortLatestFirst(s) ==
    IF Len(s) = 0 THEN <<>>
    ELSE InsertDesc(SortLatestFirst(SubSeq(s, 1, Len(s) - 1)), s[Len(s)])

\* db.syncQueue.orderBy('timestamp').toArray(): oldest first, entries of
\* equal timestamp in primary-key order (the order of the stored rows).
RECURSIVE InsertAsc(_, _)
InsertAsc(sorted, e) ==
    IF Len(sorted) = 0 THEN <<e>>
    ELSE IF Head(sorted).timestamp <= e.timestamp
         THEN <<Head(sorted)>> \o InsertAsc(Tail(sorted), e)
         ELSE <<e>> \o sorted

RECURSIVE OrderByTimestamp(_)
OrderByTimestamp(rows) ==
    IF Len(rows) = 0 THEN <<>>
    ELSE InsertAsc(OrderByTimestamp(SubSeq(rows, 1, Len(rows) - 1)), rows[Len(rows)])

\* The entries the loop compares an item with: same noteId, not a delete.
SameNote(queue, noteId) ==
    SelectSeq(queue, LAMBDA q : q.noteId = noteId /\ q.action # "delete")

\* queue.filter(...).sort(...)[0]
Latest(queue, noteId) == Head(SortLatestFirst(SameNote(queue, noteId)))

\* The loop "for (const item of queue)" of triggerSync, from item i on.
\* acc holds notesToSync, processedIds and deleteIds.
RECURSIVE CollapseLoop(_, _, _)
CollapseLoop(queue, i, acc) ==
    IF i > Len(queue) THEN acc
    ELSE LET item == queue[i] IN
         IF item.action = "delete" /\ item.data.id # NULL
         THEN CollapseLoop(queue, i + 1,
                           [acc EXCEPT !.deleteIds = Append(@, item.data.id)])
         ELSE IF item.noteId \notin acc.processedIds
                 /\ Len(SameNote(queue, item.noteId)) > 0
         THEN CollapseLoop(queue, i + 1,
                           [acc EXCEPT !.processedIds = @ \cup {item.noteId},
                                       !.notesToSync =
                                           Append(@, Latest(queue, item.noteId).data)])
         ELSE CollapseLoop(queue, i + 1, acc)

Collapse(queue) ==
    CollapseLoop(queue, 1,
                 [notesToSync |-> <<>>, processedIds |-> {}, deleteIds |-> <<>>])

\* A bulkDelete that removes the delete entries only.
IsProcessedDeleteOnly(q, processedIds, deleteIds) ==
    q.action = "delete" /\ q.data.id \in SeqToSet(deleteIds)

\* The rows bulkDelete removes at the end of a cycle.
IsProcessed(q, processedIds, deleteIds) ==
    \/ q.noteId \in processedIds
    \/ (q.action = "delete" /\ q.data.id \in SeqToSet(deleteIds))

processedQueueIds(queue, processedIds, deleteIds) ==
    { queue[i].id : i \in { j \in 1..Len(queue) :
                              IsProcessed(queue[j], processedIds, deleteIds) } }

\* ---------------------------------------------------------- reconciliation
\* Collection.first() over an index: the matching row of least primary key.
FirstOf(rows) == CHOOSE n \in rows : \A m \in rows : n.id <= m.id

ByServerId(rows, noteId) == { n \in rows : n.serverId = noteId }
ByTitleUnsynced(rows, title) == { n \in rows : n.title = title /\ n.serverId = NULL }

ReplaceRow(rows, old, new) == (rows \ {old}) \cup {new}

\* The push-response loop without its two lookups: every record is added.
AddPushedRecord(local, note) ==
    [rows |-> local.rows \cup
                {LocalNote(local.nextId, note.id, note.title, note.content,
                           note.lastModified, TRUE)},
     nextId |-> local.nextId + 1]

\* One iteration of "for (const note of [...created, ...updated])".
\* local holds the rows of db.notes and the next auto-increment key.
ReconcilePushedOne(local, note) ==
    LET byId == ByServerId(local.rows, note.id)
        byTitle == ByTitleUnsynced(local.rows, note.title)
        adopt(localNote) ==
            [local EXCEPT !.rows = ReplaceRow(@, localNote,
                [localNote EXCEPT !.serverId = note.id, !.title = note.title,
                                  !.content = note.content, !.synced = TRUE,
                                  !.lastModified = note.lastModified])]
    IN IF byId # {} THEN adopt(FirstOf(byId))
       ELSE IF byTitle # {} THEN adopt(FirstOf(byTitle))
       ELSE [rows |-> local.rows \cup
                        {LocalNote(local.nextId, note.id, note.title, note.content,
                                   note.lastModified, TRUE)},
             nextId |-> local.nextId + 1]

RECURSIVE ReconcilePushed(_, _)
ReconcilePushed(local, list) ==
    IF Len(list) = 0 THEN local
    ELSE ReconcilePushed(ReconcilePushedOne(local, Head(list)), Tail(list))

\* The conflict loop with its db.notes.update left out.
KeepLocalVersion(local, conflict) == local

\* One iteration of "for (const conflict of conflicts)".
ReconcileConflictOne(local, conflict) ==
    IF conflict.hasServerNote /\ ByServerId(local.rows, conflict.id) # {}
    THEN LET localNote == FirstOf(ByServerId(local.rows, conflict.id)) IN
         [local EXCEPT !.rows = ReplaceRow(@, localNote,
             [localNote EXCEPT !.title = conflict.serverNote.title,
                               !.content = conflict.serverNote.content,
                               !.lastModified = conflict.serverNote.lastModified,
                               !.synced = TRUE])]
    ELSE local

RECURSIVE ReconcileConflicts(_, _)
ReconcileConflicts(local, list) ==
    IF Len(list) = 0 THEN local
    ELSE ReconcileConflicts(ReconcileConflictOne(local, Head(list)), Tail(list))

\* The pull loop without its lookup by serverId: every record is added.
AddPulledRecord(local, note) ==
    [rows |-> local.rows \cup
                {LocalNote(local.nextId, note.id, note.title, note.content,
                           note.lastModified, TRUE)},
     nextId |-> local.nextId + 1]

\* One iteration of "for (const note of serverNotes)" of syncFromServer.
ReconcilePulledOne(local, note) ==
    IF ByServerId(local.rows, note.id) # {}
    THEN LET existingNote == FirstOf(ByServerId(local.rows, note.id)) IN
         [local EXCEPT !.rows = ReplaceRow(@, existingNote,
             [existingNote EXCEPT !.title = note.title, !.content = note.content,
                                  !.lastModified = note.lastModified,
                                  !.synced = TRUE])]
    ELSE [rows |-> local.rows \cup
                     {LocalNote(local.nextId, note.id, note.title, note.content,
                                note.lastModified, TRUE)},
          nextId |-> local.nextId + 1]

RECURSIVE ReconcilePulled(_, _)
ReconcilePulled(local, list) ==
    IF Len(list) = 0 THEN local
    ELSE ReconcilePulled(ReconcilePulledOne(local, Head(list)), Tail(list))

\* The response of GET /notes/sync/after as an array: .sort({ updatedAt: -1 }),
\* notes of equal updatedAt in id order.
RECURSIVE SortedByUpdatedAt(_)
SortedByUpdatedAt(set) ==
    IF set = {} THEN <<>>
    ELSE LET first == CHOOSE n \in set :
                 \A m \in set : \/ n.updatedAt > m.updatedAt
                                \/ (n.updatedAt = m.updatedAt /\ n.id <= m.id)
         IN <<first>> \o SortedByUpdatedAt(set \ {first})

\* -------------------------------------------------------------------- state
VARIABLES
    now,             \* the clock (Date.now() on both sides)
    isOnline,        \* sync.js: isOnline
    syncInProgress,  \* sync.js: syncInProgress
    syncRetryDelay,  \* sync.js: syncRetryDelay
    notes,           \* db.notes: [rows, nextId]
    syncQueue,       \* db.syncQueue: the stored rows, in primary-key order
    nextQueueId,     \* the next auto-increment key of db.syncQueue
    currentNote,     \* the editor's note (React state of the page)
    savePc,          \* where the page's save callback is suspended: "idle",
                     \* "await" (its triggerSync) or "refresh"
    cycles,          \* the invocations of triggerSync that have not returned
    retryTimers,     \* the delays of the pending setTimeout retries
    retryMissed,     \* a retry timer has fired while offline since the device
                     \* last came online (it called nothing and is gone)
    startupTimer,    \* the setTimeout(triggerSync, 1000) of module load is pending
    lastSync,        \* localStorage 'lastSync'
    requestStore,    \* rateLimiter.js: requestStore, the Map from key to record
    answers,         \* what the server answered to the requests it was sent
    server,          \* the notes collection: [store, nextId]
    wire,            \* the DELETE and POST requests sent by the cycle in flight
    lastResult,      \* how the most recent cycle ended, until the next one starts
    failStreak,      \* cycles that entered the catch block since the delay was
                     \* last reset to its floor (-1: a cycle has succeeded since
                     \* without resetting the delay, so the count is void)
    ops              \* budgeted steps still allowed: saves, deletes, remote edits,
                     \* ticks and the faults other than a failed DELETE

vars == <<now, isOnline, syncInProgress, syncRetryDelay, notes, syncQueue,
          nextQueueId, currentNote, savePc, cycles, retryTimers, retryMissed, startupTimer,
          lastSync, requestStore, answers, server, wire, lastResult, failStreak, ops>>

\* What a call of triggerSync changes before its first await.
callState == <<syncInProgress, cycles, lastResult>>
\* The editor and the timers other than the one that fires.
editorState == <<currentNote, savePc>>
queueState == <<syncQueue, nextQueueId>>
backoffState == <<syncRetryDelay, failStreak>>
timerState == <<retryTimers, retryMissed>>
limiterState == <<requestStore, answers>>

Request(op, id, batch) == [op |-> op, id |-> id, notes |-> batch]

\* The locals of one invocation of triggerSync.  pc names the await it is
\* suspended at; di counts the DELETE requests already issued; error is what
\* the catch block caught ("none" outside it).
Cycle(pc, queue, acc, di, response) ==
    [pc |-> pc, queue |-> queue, notesToSync |-> acc.notesToSync,
     processedIds |-> acc.processedIds, deleteIds |-> acc.deleteIds,
     di |-> di, response |-> response, error |-> "none"]

NoResponse == [created |-> <<>>, updated |-> <<>>, conflicts |-> <<>>]

NewCycle == Cycle("read", <<>>, Collapse(<<>>), 0, NoResponse)

NoNote == [open |-> FALSE, id |-> NULL, serverId |-> NULL, title |-> <<>>,
           content |-> <<>>, lastModified |-> 0]

\* handleNewNote's object
BlankNote == [NoNote EXCEPT !.open = TRUE]

EditorNote(row) == [open |-> TRUE, id |-> row.id, serverId |-> row.serverId,
                    title |-> row.title, content |-> row.content,
                    lastModified |-> row.lastModified]

RemoveAt(s, i) == SubSeq(s, 1, i - 1) \o SubSeq(s, i + 1, Len(s))

\* The pending timers as a multiset: kept in ascending order of delay.
RECURSIVE AddTimer(_, _)
AddTimer(timers, delay) ==
    IF Len(timers) = 0 THEN <<delay>>
    ELSE IF Head(timers) <= delay THEN <<Head(timers)>> \o AddTimer(Tail(timers), delay)
    ELSE <<delay>> \o timers

\* The state after the module is loaded, with the budgets given.
Start(online, budget) ==
    /\ now = 0
    /\ isOnline = online                    \* navigator.onLine
    /\ syncInProgress = FALSE
    /\ syncRetryDelay = FLOOR_RETRY_DELAY
    /\ notes = [rows |-> {}, nextId |-> 1]
    /\ syncQueue = <<>>
    /\ nextQueueId = 1
    /\ currentNote = NoNote
    /\ savePc = "idle"
    /\ cycles = <<>>
    /\ retryTimers = <<>>
    /\ retryMissed = FALSE
    /\ startupTimer = online
    /\ lastSync = 0
    /\ requestStore = NoRequests
    /\ answers = <<>>
    /\ server = [store |-> {}, nextId |-> 1]
    /\ wire = <<>>
    /\ lastResult = "none"
    /\ failStreak = 0
    /\ ops = budget

\* ------------------------------------------------------------ triggerSync
\* The guard without its test of the flag.
MayStartIgnoringFlag(online, inProgress) == online

\* The guard without its test of isOnline.
MayStartIgnoringOnline(online, inProgress) == ~inProgress

\* if (!isOnline || syncInProgress) return false;
MayStart(online, inProgress) == online /\ ~inProgress

\* A call of triggerSync, with isOnline as the caller left it.  Either the
\* call returns false at once, or it sets the flag and runs up to its first
\* await.
TriggerSync(online) ==
    IF MayStart(online, syncInProgress)
    THEN /\ syncInProgress' = TRUE
         /\ cycles' = Append(cycles, NewCycle)
         /\ lastResult' = "none"
    ELSE UNCHANGED callState

Tick ==
    /\ ops > 0
    /\ ops' = ops - 1
    /\ now' = now + 1
    /\ UNCHANGED <<isOnline, callState, backoffState, notes, queueState,
                   editorState, timerState, startupTimer, lastSync, limiterState, server,
                   wire>>

\* An 'online' listener that leaves the retry delay as it is.
GoOnlineKeepsDelay ==
    /\ ~isOnline
    /\ isOnline' = TRUE
    /\ UNCHANGED backoffState
    /\ TriggerSync(TRUE)
    /\ retryMissed' = FALSE
    /\ UNCHANGED <<now, notes, queueState, editorState, retryTimers, startupTimer,
                   lastSync, limiterState, server, wire, ops>>

\* window 'online' listener
GoOnline ==
    /\ ~isOnline
    /\ isOnline' = TRUE
    /\ syncRetryDelay' = FLOOR_RETRY_DELAY
    /\ failStreak' = 0
    /\ TriggerSync(TRUE)
    /\ retryMissed' = FALSE
    /\ UNCHANGED <<now, notes, queueState, editorState, retryTimers, startupTimer,
                   lastSync, limiterState, server, wire, ops>>

\* window 'offline' listener
GoOffline ==
    /\ isOnline
    /\ isOnline' = FALSE
    /\ UNCHANGED <<now, callState, backoffState, notes, queueState, editorState,
                   timerState, startupTimer, lastSync, limiterState, server, wire, ops>>

\* setTimeout(triggerSync, 1000) of module load
StartupTimer ==
    /\ startupTimer
    /\ startupTimer' = FALSE
    /\ TriggerSync(isOnline)
    /\ UNCHANGED <<now, isOnline, backoffState, notes, queueState, editorState,
                   timerState, lastSync, limiterState, server, wire, ops>>

\* setInterval(..., 30000): calls triggerSync only if (isOnline && !syncInProgress)
PeriodicTimer ==
    /\ isOnline /\ ~syncInProgress
    /\ TriggerSync(isOnline)
    /\ UNCHANGED <<now, isOnline, backoffState, notes, queueState, editorState,
                   timerState, startupTimer, lastSync, limiterState, server, wire, ops>>

\* A retry callback that starts the cycle without looking at isOnline.
RetryTimerIgnoresOffline(t) ==
    /\ t \in 1..Len(retryTimers)
    /\ retryTimers' = RemoveAt(retryTimers, t)
    /\ retryMissed' = (retryMissed \/ ~isOnline)
    /\ TriggerSync(~syncInProgress)
    /\ UNCHANGED <<now, isOnline, backoffState, notes, queueState, editorState,
                   startupTimer, lastSync, limiterState, server, wire, ops>>

\* The callback of the catch block's setTimeout: if (isOnline) triggerSync()
RetryTimer(t) ==
    /\ t \in 1..Len(retryTimers)
    /\ retryTimers' = RemoveAt(retryTimers, t)
    /\ retryMissed' = (retryMissed \/ ~isOnline)
    /\ IF isOnline THEN TriggerSync(isOnline) ELSE UNCHANGED callState
    /\ UNCHANGED <<now, isOnline, backoffState, notes, queueState, editorState,
                   startupTimer, lastSync, limiterState, server, wire, ops>>

\* ------------------------------------------------------- page.js: the editor
\* handleNewNote
HandleNewNote ==
    /\ savePc = "idle"
    /\ ops > 0
    /\ currentNote # BlankNote
    /\ currentNote' = BlankNote
    /\ UNCHANGED <<now, isOnline, callState, backoffState, notes, queueState,
                   savePc, timerState, startupTimer, lastSync, limiterState, server,
                   wire, ops>>

\* handleSelectNote(noteId)
HandleSelectNote(row) ==
    /\ savePc = "idle"
    /\ ops > 0
    /\ row \in notes.rows
    /\ currentNote # EditorNote(row)
    /\ currentNote' = EditorNote(row)
    /\ UNCHANGED <<now, isOnline, callState, backoffState, notes, queueState,
                   savePc, timerState, startupTimer, lastSync, limiterState, server,
                   wire, ops>>

\* The identity an update entry is filed under: note.serverId || note.id
UpdateKey(note) == IF note.serverId # NULL THEN note.serverId ELSE note.id

\* db.notes.update(note.id, { ...note, synced: false }): every field of the
\* editor's note overwrites the row, if the row exists.
WriteEditorNote(rows, note) ==
    { IF r.id = note.id
      THEN LocalNote(note.id, note.serverId, note.title, note.content,
                     note.lastModified, FALSE)
      ELSE r : r \in rows }

\* addToSyncQueue: db.syncQueue.add(...), then triggerSync() if online.
addToSyncQueue(noteId, action, data) ==
    /\ syncQueue' = Append(syncQueue, QueueEntry(nextQueueId, noteId, action, data, now))
    /\ nextQueueId' = nextQueueId + 1
    /\ IF isOnline THEN TriggerSync(isOnline) ELSE UNCHANGED callState

\* handleTitleChange / handleContentChange followed by the debounced callback
\* up to its "await triggerSync()": the row is written and the entry is
\* queued.  When online, addToSyncQueue has just called triggerSync, so the
\* callback's own call finds syncInProgress set and returns false at once;
\* the callback goes on to refreshCurrent.
debouncedSave(field, value) ==
    /\ savePc = "idle"
    /\ ops > 0
    /\ currentNote.open
    /\ ops' = ops - 1
    /\ LET note == [currentNote EXCEPT ![field] = value, !.lastModified = now] IN
       IF note.id # NULL
       THEN /\ notes' = [notes EXCEPT !.rows = WriteEditorNote(@, note)]
            /\ currentNote' = note
            /\ addToSyncQueue(UpdateKey(note), "update",
                              Payload(note.serverId, note.title, note.content,
                                      note.lastModified))
       ELSE /\ notes' = [rows |-> notes.rows \cup
                                    {LocalNote(notes.nextId, NULL, note.title,
                                               note.content, note.lastModified, FALSE)},
                         nextId |-> notes.nextId + 1]
            /\ currentNote' = [note EXCEPT !.id = notes.nextId, !.serverId = NULL]
            /\ addToSyncQueue(NULL, "create",
                              Payload(NULL, note.title, note.content, note.lastModified))
    /\ savePc' = IF isOnline THEN "refresh" ELSE "idle"
    /\ UNCHANGED <<now, isOnline, backoffState, timerState, startupTimer,
                   lastSync, limiterState, server, wire>>

\* The same save when db.syncQueue.add rejects: addToSyncQueue catches the
\* error, logs it and returns normally without its call of triggerSync.  The
\* callback goes on as after a stored entry: when online it calls
\* triggerSync itself, which may now start a cycle that the callback awaits
\* ("await") before it refreshes.
debouncedSaveAddFails(field, value) ==
    /\ savePc = "idle"
    /\ ops > 0
    /\ currentNote.open
    /\ ops' = ops - 1
    /\ LET note == [currentNote EXCEPT ![field] = value, !.lastModified = now] IN
       IF note.id # NULL
       THEN /\ notes' = [notes EXCEPT !.rows = WriteEditorNote(@, note)]
            /\ currentNote' = note
       ELSE /\ notes' = [rows |-> notes.rows \cup
                                    {LocalNote(notes.nextId, NULL, note.title,
                                               note.content, note.lastModified, FALSE)},
                         nextId |-> notes.nextId + 1]
            /\ currentNote' = [note EXCEPT !.id = notes.nextId, !.serverId = NULL]
    /\ IF isOnline THEN TriggerSync(isOnline) ELSE UNCHANGED callState
    /\ savePc' = IF ~isOnline THEN "idle"
                 ELSE IF MayStart(isOnline, syncInProgress) THEN "await"
                 ELSE "refresh"
    /\ UNCHANGED <<now, isOnline, backoffState, queueState, timerState,
                   startupTimer, lastSync, limiterState, server, wire>>

\* refreshCurrent(note.id) and markSyncedIfNoQueue(note.id), once the
\* callback's "await triggerSync()" has returned.
SaveRefresh ==
    /\ savePc = "refresh" \/ (savePc = "await" /\ ~syncInProgress)
    /\ savePc' = "idle"
    /\ LET marked == IF Len(syncQueue) = 0
                     THEN { IF r.id = currentNote.id THEN [r EXCEPT !.synced = TRUE]
                            ELSE r : r \in notes.rows }
                     ELSE notes.rows
           fresh == { r \in marked : r.id = currentNote.id }
       IN /\ notes' = [notes EXCEPT !.rows = marked]
          /\ currentNote' = IF fresh # {} THEN EditorNote(FirstOf(fresh))
                            ELSE currentNote
    /\ UNCHANGED <<now, isOnline, callState, backoffState, queueState, timerState,
                   startupTimer, lastSync, limiterState, server, wire, ops>>

\* NoteSidebar.handleDelete(noteId)
handleDelete(row) ==
    /\ savePc = "idle"
    /\ ops > 0
    /\ row \in notes.rows
    /\ ops' = ops - 1
    /\ notes' = [notes EXCEPT !.rows = @ \ {row}]
    /\ currentNote' = IF currentNote.id = row.id THEN NoNote ELSE currentNote
    /\ UNCHANGED <<now, isOnline, callState, backoffState, queueState, savePc,
                   timerState, startupTimer, lastSync, limiterState, server, wire>>

\* addToSyncQueue(noteId, 'delete', { id }) for a note filed under noteId
\* whose server id is id (NULL if it was never synced).
AddDeleteEntry(noteId, id) ==
    /\ ops > 0
    /\ ops' = ops - 1
    /\ addToSyncQueue(noteId, "delete", Payload(id, <<>>, <<>>, now))
    /\ UNCHANGED <<now, isOnline, backoffState, notes, editorState, timerState,
                   startupTimer, lastSync, limiterState, server, wire>>

\* The identities a delete entry can be filed under: those of the local rows.
DeleteKeys == { <<UpdateKey(r), r.serverId>> : r \in notes.rows }

\* Another device changes a note of the same user: router.patch('/:id')
\* behind sanitizeBody.
PatchRoute(n, content) ==
    /\ ops > 0
    /\ ops' = ops - 1
    /\ n \in server.store
    /\ n.userId = Me
    /\ server' = [server EXCEPT !.store = ReplaceRow(@, n,
                     [n EXCEPT !.content = sanitizeString(content),
                               !.lastModified = now, !.updatedAt = now])]
    /\ UNCHANGED <<now, isOnline, callState, backoffState, notes, queueState,
                   editorState, timerState, startupTimer, lastSync, limiterState, wire>>

\* ------------------------------------------------ the steps of a sync cycle
\* A cycle that sends its batch before it looks at deleteIds.
PostBeforeDeletes(acc) ==
    IF Len(acc.notesToSync) > 0 THEN "post"
    ELSE IF Len(acc.deleteIds) > 0 THEN "deletes" ELSE "remove"

\* The await a cycle reaches after the collapse loop, and after the deletes.
AfterDeletes(c) == IF Len(c.notesToSync) > 0 THEN "post" ELSE "remove"
AfterCollapse(acc) ==
    IF Len(acc.deleteIds) > 0 THEN "deletes"
    ELSE IF Len(acc.notesToSync) > 0 THEN "post" ELSE "remove"

\* The doubling without its ceiling.
DoubleWithoutCeiling(delay) == delay * 2

\* The ceiling applied to the delay before it is doubled.
DoubleCappedDelay(delay) == Min(delay, MAX_RETRY_DELAY) * 2

\* Math.min(syncRetryDelay * 2, MAX_RETRY_DELAY)
NextDelay(delay) == Min(delay * 2, MAX_RETRY_DELAY)

\* An exception reaches the catch block of cycle i: the delay is doubled and
\* the block suspends at db.syncQueue.toArray().  The block reads nothing of
\* the error but logs it.
ThrowError(i, error) ==
    /\ syncRetryDelay' = NextDelay(syncRetryDelay)
    /\ failStreak' = IF failStreak < 0 THEN failStreak ELSE failStreak + 1
    /\ cycles' = [cycles EXCEPT ![i].pc = "catch", ![i].error = error]
    /\ UNCHANGED <<syncInProgress, lastResult>>

Throw(i) == ThrowError(i, "network")

\* A return without the finally block: the flag stays as it was.
ReturnKeepsFlag(i, result) ==
    /\ cycles' = RemoveAt(cycles, i)
    /\ UNCHANGED syncInProgress
    /\ lastResult' = result
    /\ wire' = <<>>

\* The cycle returns: finally { syncInProgress = false }.
Return(i, result) ==
    /\ cycles' = RemoveAt(cycles, i)
    /\ syncInProgress' = FALSE
    /\ lastResult' = result
    /\ wire' = <<>>

\* const queue = await db.syncQueue.orderBy('timestamp').toArray(), then the
\* collapse loop, which has no await.
ReadQueue(i) ==
    /\ cycles[i].pc = "read"
    /\ LET queue == OrderByTimestamp(syncQueue)
           acc == Collapse(queue)
       IN cycles' = [cycles EXCEPT ![i] =
              IF Len(queue) = 0
              THEN [@ EXCEPT !.pc = "pullOnly"]
              ELSE Cycle(AfterCollapse(acc), queue, acc, 0, NoResponse)]
    /\ UNCHANGED <<now, isOnline, syncInProgress, lastResult, backoffState, notes,
                   queueState, editorState, timerState, startupTimer,
                   lastSync, limiterState, server, wire, ops>>

\* The read of the queue fails (the store rejects the request).
ReadQueueFails(i) ==
    /\ cycles[i].pc = "read"
    /\ ops > 0
    /\ ops' = ops - 1
    /\ Throw(i)
    /\ UNCHANGED <<now, isOnline, notes, queueState, editorState, timerState,
                   startupTimer, lastSync, limiterState, server, wire>>

\* await api.delete(`/notes/${id}`) for the next id of deleteIds; when ok is
\* false the request fails, the error is logged and the loop goes on.
SendDelete(i, ok) ==
    /\ cycles[i].pc = "deletes"
    /\ LET c == cycles[i]
           id == c.deleteIds[c.di + 1]
       IN /\ wire' = Append(wire, Request("DELETE", id, <<>>))
          /\ server' = IF ok THEN [server EXCEPT !.store = DeleteRoute(@, id, Me)]
                        ELSE server
          /\ cycles' = [cycles EXCEPT ![i].di = c.di + 1,
                                      ![i].pc = IF c.di + 1 = Len(c.deleteIds)
                                                THEN AfterDeletes(c) ELSE "deletes"]
    /\ UNCHANGED <<now, isOnline, syncInProgress, lastResult, backoffState, notes,
                   queueState, editorState, timerState, startupTimer,
                   lastSync, limiterState, ops>>

\* await api.post('/notes/sync', { notes: notesToSync }) answered with 200.
PostSync(i) ==
    /\ cycles[i].pc = "post"
    /\ LET res == SyncRoute(cycles[i].notesToSync, server, now, Me) IN
       /\ server' = [store |-> res.store, nextId |-> res.nextId]
       /\ cycles' = [cycles EXCEPT ![i].pc = "reconcile",
                                   ![i].response = [created |-> res.created,
                                                    updated |-> res.updated,
                                                    conflicts |-> res.conflicts]]
    /\ wire' = Append(wire, Request("POST", NULL, cycles[i].notesToSync))
    /\ UNCHANGED <<now, isOnline, syncInProgress, lastResult, backoffState, notes,
                   queueState, editorState, timerState, startupTimer,
                   lastSync, limiterState, ops>>

\* The POST fails with a network error: either the request never reached the
\* server, or the server handled it and the response was lost.
PostSyncFails(i, reached) ==
    /\ cycles[i].pc = "post"
    /\ ops > 0
    /\ ops' = ops - 1
    /\ LET res == SyncRoute(cycles[i].notesToSync, server, now, Me) IN
       server' = IF reached THEN [store |-> res.store, nextId |-> res.nextId]
                 ELSE server
    /\ wire' = Append(wire, Request("POST", NULL, cycles[i].notesToSync))
    /\ Throw(i)
    /\ UNCHANGED <<now, isOnline, notes, queueState, editorState, timerState,
                   startupTimer, lastSync, limiterState>>

\* The POST is answered 401: the credential the request carries is refused
\* before the route runs, and the awaited request rejects with that status.
PostSyncUnauthorized(i) ==
    /\ cycles[i].pc = "post"
    /\ ops > 0
    /\ ops' = ops - 1
    /\ wire' = Append(wire, Request("POST", NULL, cycles[i].notesToSync))
    /\ ThrowError(i, "401")
    /\ UNCHANGED <<now, isOnline, notes, queueState, editorState, timerState,
                   startupTimer, lastSync, limiterState, server>>

\* The two loops over the response: created and updated, then conflicts.
Reconcile(i) ==
    /\ cycles[i].pc = "reconcile"
    /\ LET r == cycles[i].response IN
       notes' = ReconcileConflicts(ReconcilePushed(notes, r.created \o r.updated),
                                   r.conflicts)
    /\ cycles' = [cycles EXCEPT ![i].pc = "remove"]
    /\ UNCHANGED <<now, isOnline, syncInProgress, lastResult, backoffState,
                   queueState, editorState, timerState, startupTimer,
                   lastSync, limiterState, server, wire, ops>>

\* await db.syncQueue.bulkDelete(processedQueueIds)
RemoveProcessed(i) ==
    /\ cycles[i].pc = "remove"
    /\ LET c == cycles[i]
           gone == processedQueueIds(c.queue, c.processedIds, c.deleteIds)
       IN syncQueue' = SelectSeq(syncQueue, LAMBDA q : q.id \notin gone)
    /\ cycles' = [cycles EXCEPT ![i].pc = "pull"]
    /\ UNCHANGED <<now, isOnline, syncInProgress, lastResult, backoffState, notes,
                   nextQueueId, editorState, timerState, startupTimer,
                   lastSync, limiterState, server, wire, ops>>

\* A syncFromServer that stores the watermark in a finally block, so that
\* a failed GET advances it as well.
syncFromServerAlwaysStamps(ok) ==
    IF ok
    THEN /\ notes' = ReconcilePulled(notes,
                         SortedByUpdatedAt(NotesAfter(server.store, lastSync, Me)))
         /\ lastSync' = now
         /\ UNCHANGED ops
    ELSE /\ ops > 0
         /\ ops' = ops - 1
         /\ lastSync' = now
         /\ UNCHANGED notes

\* syncFromServer: the GET, the loop over its records and the new watermark;
\* when ok is false the GET fails and the function only logs the error.
syncFromServer(ok) ==
    IF ok
    THEN /\ notes' = ReconcilePulled(notes,
                         SortedByUpdatedAt(NotesAfter(server.store, lastSync, Me)))
         /\ lastSync' = now
         /\ UNCHANGED ops
    ELSE /\ ops > 0
         /\ ops' = ops - 1
         /\ UNCHANGED <<notes, lastSync>>

\* The end of a cycle that had entries to process: await syncFromServer();
\* syncRetryDelay = 1000; return true.
PullAndFinish(i, ok) ==
    /\ cycles[i].pc = "pull"
    /\ syncFromServer(ok)
    /\ UNCHANGED limiterState
    /\ syncRetryDelay' = FLOOR_RETRY_DELAY
    /\ failStreak' = 0
    /\ Return(i, "success")
    /\ UNCHANGED <<now, isOnline, queueState, editorState, timerState,
                   startupTimer, server>>

\* The cycle that found the queue empty: await syncFromServer();
\* syncInProgress = false; return true.
PullOnly(i, ok) ==
    /\ cycles[i].pc = "pullOnly"
    /\ syncFromServer(ok)
    /\ UNCHANGED limiterState
    /\ failStreak' = IF syncRetryDelay = FLOOR_RETRY_DELAY THEN 0 ELSE 0 - 1
    /\ Return(i, "success")
    /\ UNCHANGED <<now, isOnline, syncRetryDelay, queueState, editorState,
                   timerState, startupTimer, server>>

\* The rest of the catch block: every row's retries is incremented, the retry
\* is scheduled after the new delay, the call returns false.
CatchBlock(i) ==
    /\ cycles[i].pc = "catch"
    /\ syncQueue' = [k \in 1..Len(syncQueue) |->
                        [syncQueue[k] EXCEPT !.retries = @ + 1]]
    /\ retryTimers' = AddTimer(retryTimers, syncRetryDelay)
    /\ UNCHANGED retryMissed
    /\ Return(i, "failure")
    /\ UNCHANGED <<now, isOnline, backoffState, notes, nextQueueId, editorState,
                   startupTimer, lastSync, limiterState, server, ops>>

\* db.syncQueue.toArray() throws inside the catch block: the call rejects,
\* no retry is scheduled, finally still clears the flag.
CatchBlockFails(i) ==
    /\ cycles[i].pc = "catch"
    /\ ops > 0
    /\ ops' = ops - 1
    /\ Return(i, "rejected")
    /\ UNCHANGED <<now, isOnline, backoffState, notes, queueState, editorState,
                   timerState, startupTimer, lastSync, limiterState, server>>

\* --------------------------------------------------------- specifications
Environment ==
    \/ Tick
    \/ GoOnline
    \/ GoOffline
    \/ StartupTimer
    \/ PeriodicTimer
    \/ \E t \in 1..Len(retryTimers) : RetryTimer(t)

Editor ==
    \/ HandleNewNote
    \/ \E row \in notes.rows : HandleSelectNote(row)
    \/ \E title \in Titles : debouncedSave("title", title)
    \/ \E content \in Contents : debouncedSave("content", content)
    \/ \E title \in Titles : debouncedSaveAddFails("title", title)
    \/ SaveRefresh
    \/ \E row \in notes.rows : handleDelete(row)
    \/ \E k \in DeleteKeys : AddDeleteEntry(k[1], k[2])
    \/ \E n \in server.store, content \in Contents : PatchRoute(n, content)

SyncCycle ==
    \E i \in 1..Len(cycles) :
        \/ ReadQueue(i)
        \/ ReadQueueFails(i)
        \/ \E ok \in BOOLEAN : SendDelete(i, ok)
        \/ PostSync(i)
        \/ \E reached \in BOOLEAN : PostSyncFails(i, reached)
        \/ PostSyncUnauthorized(i)
        \/ Reconcile(i)
        \/ RemoveProcessed(i)
        \/ \E ok \in BOOLEAN : PullAndFinish(i, ok)
        \/ \E ok \in BOOLEAN : PullOnly(i, ok)
        \/ CatchBlock(i)
        \/ CatchBlockFails(i)

Init == \E online \in BOOLEAN : Start(online, MaxOps)

Next == Environment \/ Editor \/ SyncCycle

Spec == Init /\ [][Next]_vars

\* The editing session that starts offline with an empty store and goes
\* online once: the user's edits, the clock and the fault-free steps of the
\* cycles.
NextEdit ==
    \/ Tick
    \/ GoOnline
    \/ PeriodicTimer
    \/ HandleNewNote
    \/ \E row \in notes.rows : HandleSelectNote(row)
    \/ \E title \in Titles : debouncedSave("title", title)
    \/ \E content \in Contents : debouncedSave("content", content)
    \/ SaveRefresh
    \/ \E i \in 1..Len(cycles) :
        \/ ReadQueue(i)
        \/ PostSync(i)
        \/ Reconcile(i)
        \/ RemoveProcessed(i)
        \/ PullAndFinish(i, TRUE)
        \/ PullOnly(i, TRUE)

SpecEdit == Start(FALSE, MaxEditOps) /\ [][NextEdit]_vars

\* A later session: the notes "a" and "b" were created and synced before
\* (local rows 1 and 2, server ids 101 and 102), the queue is empty, the
\* device is offline and no note is open in the editor.
SyncedRows ==
    { LocalNote(1, ServerIdBase + 1, <<"a">>, <<"x">>, 0, TRUE),
      LocalNote(2, ServerIdBase + 2, <<"b">>, <<"x">>, 0, TRUE) }

SyncedStore ==
    { ServerNote(ServerIdBase + 1, <<"a">>, <<"x">>, 0, 0, Me),
      ServerNote(ServerIdBase + 2, <<"b">>, <<"x">>, 0, 0, Me) }

InitSynced ==
    /\ now = 0
    /\ isOnline = FALSE
    /\ syncInProgress = FALSE
    /\ syncRetryDelay = FLOOR_RETRY_DELAY
    /\ notes = [rows |-> SyncedRows, nextId |-> 3]
    /\ syncQueue = <<>>
    /\ nextQueueId = 3
    /\ currentNote = NoNote
    /\ savePc = "idle"
    /\ cycles = <<>>
    /\ retryTimers = <<>>
    /\ retryMissed = FALSE
    /\ startupTimer = FALSE
    /\ lastSync = 0
    /\ requestStore = NoRequests
    /\ answers = <<>>
    /\ server = [store |-> SyncedStore, nextId |-> 3]
    /\ wire = <<>>
    /\ lastResult = "none"
    /\ failStreak = 0
    /\ ops = MaxSyncedOps

\* The session goes on: edits of the synced notes, delete entries, writes of
\* another device, the clock, one transition to online, fault-free cycles.
NextSynced ==
    \/ Tick
    \/ GoOnline
    \/ PeriodicTimer
    \/ \E row \in notes.rows : HandleSelectNote(row)
    \/ \E content \in Contents : debouncedSave("content", content)
    \/ SaveRefresh
    \/ \E k \in DeleteKeys : AddDeleteEntry(k[1], k[2])
    \/ \E n \in server.store, content \in Contents : PatchRoute(n, content)
    \/ \E i \in 1..Len(cycles) :
        \/ ReadQueue(i)
        \/ SendDelete(i, TRUE)
        \/ PostSync(i)
        \/ Reconcile(i)
        \/ RemoveProcessed(i)
        \/ PullAndFinish(i, TRUE)
        \/ PullOnly(i, TRUE)

SpecSynced == InitSynced /\ [][NextSynced]_vars

\* A run of failing cycles: the page is loaded online; the note "a" was
\* written offline in an earlier session, so its row is unsynced and its
\* create entry is waiting in the queue.  The store's read of the queue or
\* the POST can fail, the retry timers fire, the connection comes and goes.
InitBackoff ==
    /\ now = 1
    /\ isOnline = TRUE
    /\ syncInProgress = FALSE
    /\ syncRetryDelay = FLOOR_RETRY_DELAY
    /\ notes = [rows |-> {LocalNote(1, NULL, <<"a">>, <<>>, 0, FALSE)}, nextId |-> 2]
    /\ syncQueue = << QueueEntry(1, NULL, "create", Payload(NULL, <<"a">>, <<>>, 0), 0) >>
    /\ nextQueueId = 2
    /\ currentNote = NoNote
    /\ savePc = "idle"
    /\ cycles = <<>>
    /\ retryTimers = <<>>
    /\ retryMissed = FALSE
    /\ startupTimer = TRUE
    /\ lastSync = 0
    /\ requestStore = NoRequests
    /\ answers = <<>>
    /\ server = [store |-> {}, nextId |-> 1]
    /\ wire = <<>>
    /\ lastResult = "none"
    /\ failStreak = 0
    /\ ops = MaxBackoffOps

NextBackoff ==
    \/ StartupTimer
    \/ PeriodicTimer
    \/ \E t \in 1..Len(retryTimers) : RetryTimer(t)
    \/ GoOffline
    \/ GoOnline
    \/ \E i \in 1..Len(cycles) :
        \/ ReadQueue(i)
        \/ ReadQueueFails(i)
        \/ PostSync(i)
        \/ PostSyncFails(i, FALSE)
        \/ Reconcile(i)
        \/ RemoveProcessed(i)
        \/ PullAndFinish(i, TRUE)
        \/ PullOnly(i, TRUE)
        \/ CatchBlock(i)

SpecBackoff == InitBackoff /\ [][NextBackoff]_vars

\* The first note of a session: the device starts offline with empty stores,
\* the user writes a note, whose title may end in a blank, the connection
\* comes up and the cycles run without faults.
MaxCreateOps == 2

TypedTitles == Titles \cup { <<"a", " ">> }

NextCreate ==
    \/ Tick
    \/ GoOnline
    \/ HandleNewNote
    \/ \E title \in TypedTitles : debouncedSave("title", title)
    \/ SaveRefresh
    \/ \E i \in 1..Len(cycles) :
        \/ ReadQueue(i)
        \/ PostSync(i)
        \/ Reconcile(i)
        \/ RemoveProcessed(i)
        \/ PullAndFinish(i, TRUE)
        \/ PullOnly(i, TRUE)

SpecCreate == Start(FALSE, MaxCreateOps) /\ [][NextCreate]_vars

\* Edits during a run of cycles that can fail: the page of InitBackoff, where
\* the user opens the waiting note and goes on typing while cycles are in
\* flight, the POST can fail and the retry timers fire.
MaxFlightOps == 3

\* The page loaded online with the note "a" of an earlier offline session:
\* its row is unsynced and its create entry is waiting in the queue.
StartQueued(budget) ==
    /\ now = 1
    /\ isOnline = TRUE
    /\ syncInProgress = FALSE
    /\ syncRetryDelay = FLOOR_RETRY_DELAY
    /\ notes = [rows |-> {LocalNote(1, NULL, <<"a">>, <<>>, 0, FALSE)}, nextId |-> 2]
    /\ syncQueue = << QueueEntry(1, NULL, "create", Payload(NULL, <<"a">>, <<>>, 0), 0) >>
    /\ nextQueueId = 2
    /\ currentNote = NoNote
    /\ savePc = "idle"
    /\ cycles = <<>>
    /\ retryTimers = <<>>
    /\ retryMissed = FALSE
    /\ startupTimer = TRUE
    /\ lastSync = 0
    /\ requestStore = NoRequests
    /\ answers = <<>>
    /\ server = [store |-> {}, nextId |-> 1]
    /\ wire = <<>>
    /\ lastResult = "none"
    /\ failStreak = 0
    /\ ops = budget

InitFlight == StartQueued(MaxFlightOps)

NextFlight ==
    \/ Tick
    \/ StartupTimer
    \/ PeriodicTimer
    \/ \E t \in 1..Len(retryTimers) : RetryTimer(t)
    \/ \E row \in notes.rows : HandleSelectNote(row)
    \/ \E content \in Contents : debouncedSave("content", content)
    \/ SaveRefresh
    \/ \E i \in 1..Len(cycles) :
        \/ ReadQueue(i)
        \/ PostSync(i)
        \/ PostSyncFails(i, FALSE)
        \/ Reconcile(i)
        \/ RemoveProcessed(i)
        \/ PullAndFinish(i, TRUE)
        \/ PullOnly(i, TRUE)
        \/ CatchBlock(i)

SpecFlight == InitFlight /\ [][NextFlight]_vars

\* The same page without the editor, where every step of a cycle can fail,
\* the catch block included, under the scheduling of the event loop: every
\* awaited promise of a cycle in flight settles, so a cycle that can take a
\* step eventually takes one.
MaxLiveOps == 3

LiveCycle ==
    \E i \in 1..Len(cycles) :
        \/ ReadQueue(i)
        \/ ReadQueueFails(i)
        \/ PostSync(i)
        \/ PostSyncFails(i, FALSE)
        \/ Reconcile(i)
        \/ RemoveProcessed(i)
        \/ \E ok \in BOOLEAN : PullAndFinish(i, ok)
        \/ \E ok \in BOOLEAN : PullOnly(i, ok)
        \/ CatchBlock(i)
        \/ CatchBlockFails(i)

NextLive ==
    \/ Tick
    \/ GoOnline
    \/ GoOffline
    \/ StartupTimer
    \/ PeriodicTimer
    \/ \E t \in 1..Len(retryTimers) : RetryTimer(t)
    \/ LiveCycle

SpecLive == StartQueued(MaxLiveOps) /\ [][NextLive]_vars /\ WF_vars(LiveCycle)

\* The server's rate limiters seen from two client addresses: requests to
\* the authentication routes and to the other routes under /api/, the clock
\* and the cleanup interval.
MaxLimiterOps == 6

Ips == { "ip1", "ip2" }

Answer(ip, path, admitted, at) ==
    [ip |-> ip, path |-> path, admitted |-> admitted, at |-> at]

\* A request to /api/auth/...: app.use('/api/', apiRateLimiter), then
\* router.use(authRateLimiter) of the auth router.
AuthRequest(ip) ==
    /\ ops > 0
    /\ ops' = ops - 1
    /\ LET api == apiRateLimiter(requestStore, ip, now)
           auth == authRateLimiter(api.store, ip, now)
       IN /\ requestStore' = IF api.next THEN auth.store ELSE api.store
          /\ answers' = Append(answers, Answer(ip, "auth", api.next /\ auth.next, now))
    /\ UNCHANGED <<now, isOnline, callState, backoffState, notes, queueState,
                   editorState, timerState, startupTimer, lastSync, server, wire>>

\* A request to any other route under /api/: apiRateLimiter only.
ApiRequest(ip) ==
    /\ ops > 0
    /\ ops' = ops - 1
    /\ LET api == apiRateLimiter(requestStore, ip, now)
       IN /\ requestStore' = api.store
          /\ answers' = Append(answers, Answer(ip, "api", api.next, now))
    /\ UNCHANGED <<now, isOnline, callState, backoffState, notes, queueState,
                   editorState, timerState, startupTimer, lastSync, server, wire>>

\* The setInterval callback of rateLimiter.js, when it has a record to delete.
Cleanup ==
    /\ CleanedUp(requestStore, now) # requestStore
    /\ requestStore' = CleanedUp(requestStore, now)
    /\ UNCHANGED <<now, isOnline, callState, backoffState, notes, queueState,
                   editorState, timerState, startupTimer, lastSync, server, wire,
                   answers, ops>>

\* More than a whole window goes by.
WindowPasses ==
    /\ ops > 0
    /\ ops' = ops - 1
    /\ now' = now + WINDOW_MS + 1
    /\ UNCHANGED <<isOnline, callState, backoffState, notes, queueState,
                   editorState, timerState, startupTimer, lastSync, limiterState,
                   server, wire>>

NextLimiter ==
    \/ Tick
    \/ WindowPasses
    \/ Cleanup
    \/ \E ip \in Ips : AuthRequest(ip)
    \/ \E ip \in Ips : ApiRequest(ip)

SpecLimiter == Start(TRUE, MaxLimiterOps) /\ [][NextLimiter]_vars

\* A second device of the same user: the page is loaded online on a device
\* whose stores are empty, while the server already holds the note "a" that
\* the user wrote elsewhere.  The user writes notes here while the first
\* cycles run, without faults.
MaxRemoteOps == 2

InitRemote ==
    /\ now = 1
    /\ isOnline = TRUE
    /\ syncInProgress = FALSE
    /\ syncRetryDelay = FLOOR_RETRY_DELAY
    /\ notes = [rows |-> {}, nextId |-> 1]
    /\ syncQueue = <<>>
    /\ nextQueueId = 1
    /\ currentNote = NoNote
    /\ savePc = "idle"
    /\ cycles = <<>>
    /\ retryTimers = <<>>
    /\ retryMissed = FALSE
    /\ startupTimer = TRUE
    /\ lastSync = 0
    /\ requestStore = NoRequests
    /\ answers = <<>>
    /\ server = [store |-> {ServerNote(ServerIdBase + 1, <<"a">>, <<"x">>, 0, 0, Me)},
                 nextId |-> 2]
    /\ wire = <<>>
    /\ lastResult = "none"
    /\ failStreak = 0
    /\ ops = MaxRemoteOps

NextRemote ==
    \/ Tick
    \/ StartupTimer
    \/ PeriodicTimer
    \/ HandleNewNote
    \/ \E title \in Titles : debouncedSave("title", title)
    \/ SaveRefresh
    \/ \E i \in 1..Len(cycles) :
        \/ ReadQueue(i)
        \/ PostSync(i)
        \/ Reconcile(i)
        \/ RemoveProcessed(i)
        \/ PullAndFinish(i, TRUE)
        \/ PullOnly(i, TRUE)

SpecRemote == InitRemote /\ [][NextRemote]_vars

\* Deletions in a later session: the two synced notes of InitSynced, the
\* device offline.  The user edits a note and deletes it in the sidebar; the
\* note leaves the server through a queued delete entry or through another
\* device; then the connection comes up and the cycles run without faults.
MaxGoneOps == 3

InitGone ==
    /\ now = 0
    /\ isOnline = FALSE
    /\ syncInProgress = FALSE
    /\ syncRetryDelay = FLOOR_RETRY_DELAY
    /\ notes = [rows |-> SyncedRows, nextId |-> 3]
    /\ syncQueue = <<>>
    /\ nextQueueId = 3
    /\ currentNote = NoNote
    /\ savePc = "idle"
    /\ cycles = <<>>
    /\ retryTimers = <<>>
    /\ retryMissed = FALSE
    /\ startupTimer = FALSE
    /\ lastSync = 0
    /\ requestStore = NoRequests
    /\ answers = <<>>
    /\ server = [store |-> SyncedStore, nextId |-> 3]
    /\ wire = <<>>
    /\ lastResult = "none"
    /\ failStreak = 0
    /\ ops = MaxGoneOps

\* Another device of the user deletes a note: router.delete('/:id').
RemoteDelete(n) ==
    /\ ops > 0
    /\ ops' = ops - 1
    /\ n \in server.store
    /\ n.userId = Me
    /\ server' = [server EXCEPT !.store = DeleteRoute(@, n.id, Me)]
    /\ UNCHANGED <<now, isOnline, callState, backoffState, notes, queueState,
                   editorState, timerState, startupTimer, lastSync, limiterState, wire>>

NextGone ==
    \/ GoOnline
    \/ \E row \in notes.rows : HandleSelectNote(row)
    \/ \E content \in Contents : debouncedSave("content", content)
    \/ SaveRefresh
    \/ \E row \in notes.rows : handleDelete(row)
    \/ \E k \in DeleteKeys : AddDeleteEntry(k[1], k[2])
    \/ \E n \in server.store : RemoteDelete(n)
    \/ \E i \in 1..Len(cycles) :
        \/ ReadQueue(i)
        \/ SendDelete(i, TRUE)
        \/ PostSync(i)
        \/ Reconcile(i)
        \/ RemoveProcessed(i)
        \/ PullAndFinish(i, TRUE)
        \/ PullOnly(i, TRUE)

SpecGone == InitGone /\ [][NextGone]_vars

\* Draining the queue: the page of StartQueued on a device that stays online.
\* Entries are added while cycles run (edits of the waiting note, delete
\* entries for it), a POST can fail a bounded number of times, and the event
\* loop is fair: an awaited promise settles, the interval timer keeps firing
\* and a pending retry timer fires.
MaxDrainOps == 2

DrainCycle ==
    \E i \in 1..Len(cycles) :
        \/ ReadQueue(i)
        \/ SendDelete(i, TRUE)
        \/ PostSync(i)
        \/ PostSyncFails(i, FALSE)
        \/ Reconcile(i)
        \/ RemoveProcessed(i)
        \/ PullAndFinish(i, TRUE)
        \/ PullOnly(i, TRUE)
        \/ CatchBlock(i)

RetryTimers == \E t \in 1..Len(retryTimers) : RetryTimer(t)

NextDrain ==
    \/ StartupTimer
    \/ PeriodicTimer
    \/ RetryTimers
    \/ \E row \in notes.rows : HandleSelectNote(row)
    \/ \E content \in Contents : debouncedSave("content", content)
    \/ SaveRefresh
    \/ \E k \in DeleteKeys : AddDeleteEntry(k[1], k[2])
    \/ DrainCycle

SpecDrain ==
    /\ StartQueued(MaxDrainOps)
    /\ [][NextDrain]_vars
    /\ WF_vars(DrainCycle)
    /\ WF_vars(PeriodicTimer)
    /\ WF_vars(RetryTimers)

\* The route POST /notes/sync seen from any client of the API: the request
\* body is JSON, so an element of its notes array is an object or null.  The
\* server holds the two notes of the user and a note of another user.
MaxRouteOps == 2
MaxBatch == 2

\* An element of req.body.notes: null, or an object with the fields of note.
Element(note) == [null |-> FALSE, note |-> note]
NullElement == [null |-> TRUE, note |-> Payload(NULL, <<>>, <<>>, 0)]

\* The objects a request can carry: no id, the id of a note of the user, the
\* id of a note of another user; an empty title or a title; a date before or
\* after the stored one.
Elements ==
    { Element(Payload(id, title, <<"x">>, lastModified)) :
        id \in {NULL, ServerIdBase + 1, ServerIdBase + 3},
        title \in {<<>>, <<"a">>},
        lastModified \in {0, 2} } \cup {NullElement}

Bodies == UNION { [1..n -> Elements] : n \in 0..MaxBatch }

\* The whole handler.  sanitizeObject maps null to null.  For a null element
\* the read of syncNote.id throws inside the inner try, and again inside its
\* catch block, which reads syncNote.id for the conflict: the loop is left
\* for the outer catch, which answers 500 with no list; the notes before the
\* null element have been saved.
RouteAnswer(body, srv, at, user) ==
    LET nulls == { k \in 1..Len(body) : body[k].null }
        upto == IF nulls = {} THEN Len(body)
                ELSE (CHOOSE k \in nulls : \A m \in nulls : k <= m) - 1
        res == SyncRoute([k \in 1..upto |-> body[k].note], srv, at, user)
    IN IF nulls = {}
       THEN [status |-> 200, created |-> res.created, updated |-> res.updated,
             conflicts |-> res.conflicts, store |-> res.store, nextId |-> res.nextId]
       ELSE [status |-> 500, created |-> <<>>, updated |-> <<>>,
             conflicts |-> <<>>, store |-> res.store, nextId |-> res.nextId]

InitRoute ==
    /\ now = 1
    /\ isOnline = TRUE
    /\ syncInProgress = FALSE
    /\ syncRetryDelay = FLOOR_RETRY_DELAY
    /\ notes = [rows |-> {}, nextId |-> 1]
    /\ syncQueue = <<>>
    /\ nextQueueId = 1
    /\ currentNote = NoNote
    /\ savePc = "idle"
    /\ cycles = <<>>
    /\ retryTimers = <<>>
    /\ retryMissed = FALSE
    /\ startupTimer = FALSE
    /\ lastSync = 0
    /\ requestStore = NoRequests
    /\ answers = <<>>
    /\ server = [store |-> { ServerNote(ServerIdBase + 1, <<"a">>, <<"x">>, 1, 1, Me),
                             ServerNote(ServerIdBase + 3, <<"b">>, <<"x">>, 1, 1, Other) },
                 nextId |-> 4]
    /\ wire = <<>>
    /\ lastResult = "none"
    /\ failStreak = 0
    /\ ops = MaxRouteOps

\* A client sends a body to POST /notes/sync; answers holds the last request
\* and what it was answered.
SyncRequest(body) ==
    /\ ops > 0
    /\ ops' = ops - 1
    /\ LET res == RouteAnswer(body, server, now, Me) IN
       /\ server' = [store |-> res.store, nextId |-> res.nextId]
       /\ answers' = << [body |-> body, status |-> res.status,
                         created |-> res.created, updated |-> res.updated,
                         conflicts |-> res.conflicts] >>
    /\ UNCHANGED <<now, isOnline, callState, backoffState, notes, queueState,
                   editorState, timerState, startupTimer, lastSync, requestStore, wire>>

NextRoute ==
    \/ Tick
    \/ \E body \in Bodies : SyncRequest(body)

SpecRoute == InitRoute /\ [][NextRoute]_vars

\* ------------------------------------------------------------------ claims
\* The ids of the rows a cycle read at its start.
SnapshotIds(c) == { c.queue[k].id : k \in 1..Len(c.queue) }
QueueIds == { syncQueue[k].id : k \in 1..Len(syncQueue) }

\* The batches of the POST requests on the wire.
Posts == SelectSeq(wire, LAMBDA r : r.op = "POST")

\* C1: whatever the triggers (online event, timers, saves), at most one
\* invocation of triggerSync is executing at any time, and the flag is set
\* exactly while one is.
C1_SingleFlight ==
    /\ Len(cycles) <= 1
    /\ syncInProgress <=> (Len(cycles) = 1)

\* C1 witness: a save called triggerSync while a cycle was in flight (the
\* cycle had read the queue before the entry was added) and no second cycle
\* started.
C1_Witness ==
    /\ Len(cycles) = 1
    /\ isOnline /\ savePc = "refresh"
    /\ cycles[1].pc \notin {"read", "pullOnly"}
    /\ QueueIds \ SnapshotIds(cycles[1]) # {}

\* The cycles that have read the queue and found entries in it.
Collapsed == { i \in 1..Len(cycles) : cycles[i].pc \notin {"read", "pullOnly"} }

\* The entries of a snapshot filed under noteId with the given action.
EntriesOf(queue, noteId, action) ==
    SelectSeq(queue, LAMBDA q : q.noteId = noteId /\ q.action = action)

\* The most recently enqueued entry of a non-empty sequence of entries: the
\* one of greatest auto-increment key.
MostRecent(entries) ==
    CHOOSE e \in SeqToSet(entries) : \A f \in SeqToSet(entries) : f.id <= e.id

\* The positions of a batch whose payload carries the server id given.
PayloadsFor(batch, id) == { k \in 1..Len(batch) : batch[k].id = id }

\* C2: for every identity with update entries in the snapshot of a cycle (the
\* notes here all have server ids, so identity and payload id coincide), the
\* batch holds exactly one payload for it, the data of the most recently
\* enqueued of those entries.
C2_LatestUpdateOnly ==
    \A i \in Collapsed :
        LET c == cycles[i] IN
        \A n \in { c.queue[k].noteId : k \in 1..Len(c.queue) } :
            LET updates == EntriesOf(c.queue, n, "update") IN
            (Len(updates) > 0 /\ Len(EntriesOf(c.queue, n, "delete")) = 0) =>
                /\ Cardinality(PayloadsFor(c.notesToSync, n)) = 1
                /\ \A k \in PayloadsFor(c.notesToSync, n) :
                       c.notesToSync[k] = MostRecent(updates).data

\* C3: a note is created and edited again before any cycle runs (the only
\* local row there ever was, so the create entry and the update entry are
\* its own); the cycle that reads these two entries sends one payload, that
\* of the later edit.
C3_CreateThenUpdateOnePayload ==
    \A i \in Collapsed :
        LET c == cycles[i] IN
        ( /\ c.pc = "post"
          /\ notes.nextId = 2
          /\ Len(c.queue) = 2
          /\ c.queue[1].action = "create"
          /\ c.queue[2].action = "update" ) =>
            c.notesToSync = << c.queue[2].data >>

\* C4: every create entry is for a local note of its own, so a snapshot made
\* of create entries only is sent whole: one payload per entry, and no
\* entry leaves the queue unless its data went out in the POST.
C4_CreatesOfDifferentNotesAllSent ==
    \A i \in Collapsed :
        LET c == cycles[i] IN
        (\A k \in 1..Len(c.queue) : c.queue[k].action = "create") =>
            /\ Len(c.notesToSync) = Len(c.queue)
            /\ \A k \in 1..Len(c.queue) :
                   \/ c.queue[k].id \in QueueIds
                   \/ \E r \in 1..Len(Posts) :
                          c.queue[k].data \in SeqToSet(Posts[r].notes)

\* C5: when the snapshot holds a delete entry for a server id, the batch of
\* that cycle holds no payload for that id.
C5_DeleteSupersedes ==
    \A i \in Collapsed :
        LET c == cycles[i] IN
        \A k \in 1..Len(c.queue) :
            (c.queue[k].action = "delete" /\ c.queue[k].data.id # NULL) =>
                PayloadsFor(c.notesToSync, c.queue[k].data.id) = {}

\* A step in which the POST of cycle i is answered.
Answered(i) ==
    /\ cycles[i].pc = "post"
    /\ Len(cycles') >= i
    /\ cycles'[i].pc = "reconcile"

\* The payloads of a batch that name a note the caller has on the server.
OwnUpdates(batch, store) ==
    { k \in 1..Len(batch) :
        /\ batch[k].id # NULL
        /\ HasServerNote(store, batch[k].id)
        /\ FindById(store, batch[k].id).userId = Me }

\* C6: when the server answers a POST, every payload for an existing note of
\* the caller is judged by its timestamp T1 against the stored T2: if
\* T1 >= T2 the stored note carries the client's title and content,
\* otherwise the stored note is unchanged and is returned in conflicts.
C6_LastWriteWins ==
    [][\A i \in 1..Len(cycles) : Answered(i) =>
          LET batch == cycles[i].notesToSync IN
          \A k \in OwnUpdates(batch, server.store) :
              LET p == batch[k]
                  old == FindById(server.store, p.id)
                  conflicts == cycles'[i].response.conflicts
              IN IF p.lastModified >= old.lastModified
                 THEN /\ HasServerNote(server'.store, p.id)
                      /\ FindById(server'.store, p.id).title = p.title
                      /\ FindById(server'.store, p.id).content = p.content
                 ELSE /\ old \in server'.store
                      /\ \E j \in 1..Len(conflicts) :
                             /\ conflicts[j].id = p.id
                             /\ conflicts[j].hasServerNote
                             /\ conflicts[j].serverNote = old]_vars

\* A step in which cycle i, having processed its entries, pulls and returns.
Finished(i) ==
    /\ cycles[i].pc = "pull"
    /\ Len(cycles') < Len(cycles)

\* The note filed under noteId was saved again after cycle c read the queue.
SavedAgain(c, noteId) ==
    \E k \in 1..Len(syncQueue) :
        syncQueue[k].noteId = noteId /\ syncQueue[k].id \notin SnapshotIds(c)

\* The local rows of a server id all show the title and content given and
\* are marked synced, and there is such a row.
LocalShows(rows, id, title, content) ==
    /\ \E r \in rows : r.serverId = id
    /\ \A r \in rows :
           r.serverId = id => r.title = title /\ r.content = content /\ r.synced

\* C7: when a cycle whose POST returned a "server version is newer" conflict
\* for a note comes to its end, no entry of its snapshot for that note is
\* left in the queue (and a removed entry never comes back); unless the note
\* was saved again meanwhile, its local row shows the version the server
\* returned before the final pull, and the server's stored version after
\* it, with synced = true.
C7_LoserTakesServerVersion ==
    [][/\ \A k \in 1..Len(syncQueue') :
              syncQueue'[k].id \in QueueIds \/ syncQueue'[k].id >= nextQueueId
       /\ \A i \in 1..Len(cycles) : Finished(i) =>
            LET c == cycles[i] IN
            \A j \in 1..Len(c.response.conflicts) :
                LET cf == c.response.conflicts[j] IN
                cf.hasServerNote =>
                    /\ \A k \in 1..Len(syncQueue') :
                           syncQueue'[k].id \in SnapshotIds(c) =>
                               syncQueue'[k].noteId # cf.id
                    /\ ~SavedAgain(c, cf.id) =>
                           /\ LocalShows(notes.rows, cf.id, cf.serverNote.title,
                                         cf.serverNote.content)
                           /\ HasServerNote(server'.store, cf.id)
                           /\ LocalShows(notes'.rows, cf.id,
                                         FindById(server'.store, cf.id).title,
                                         FindById(server'.store, cf.id).content)]_vars

\* C7 witness: a cycle has reconciled a lost update and removed its entry:
\* the local row of the note carries the server's later version, not the
\* content of the entry that lost.
C7_Witness ==
    \E i \in 1..Len(cycles) :
        /\ cycles[i].pc = "pull"
        /\ \E j \in 1..Len(cycles[i].response.conflicts) :
               LET cf == cycles[i].response.conflicts[j] IN
               /\ cf.hasServerNote
               /\ ~SavedAgain(cycles[i], cf.id)
               /\ \E k \in 1..Len(cycles[i].queue) :
                      /\ cycles[i].queue[k].noteId = cf.id
                      /\ cycles[i].queue[k].data.content # cf.serverNote.content
                      /\ cycles[i].queue[k].data.lastModified < cf.serverNote.lastModified
                      /\ cycles[i].queue[k].id \notin QueueIds
               /\ LocalShows(notes.rows, cf.id, cf.serverNote.title,
                             cf.serverNote.content)

\* The delay the backoff rule gives after k failures counted from the floor.
BackoffAfter(k) == Min(FLOOR_RETRY_DELAY * 2^k, MAX_RETRY_DELAY)

\* C8: counted from the last reset of the delay to its floor (module load,
\* an online event, a successful cycle that processed entries), after k
\* cycles have failed with no success in between the retry delay is
\* min(1000 * 2^k, 60000).
C8_DelayDoublesToCeiling ==
    failStreak >= 0 => syncRetryDelay = BackoffAfter(failStreak)

\* C8 witness: seven cycles in a row have failed; the delay reached the
\* ceiling at the sixth and stayed there.
C8_Witness ==
    /\ failStreak = 7
    /\ lastResult = "failure"
    /\ syncRetryDelay = MAX_RETRY_DELAY
    /\ BackoffAfter(5) < MAX_RETRY_DELAY

\* C9: once a cycle has returned true, and until the next cycle starts, the
\* retry delay is the floor value.
C9_SuccessResetsDelay ==
    lastResult = "success" => syncRetryDelay = FLOOR_RETRY_DELAY

\* C10: the retry timer that the k-th failed cycle in a row schedules
\* (k >= 1, counted from the floor) is set to min(1000 * 2^(k-1), 60000):
\* 1000 ms after the first failure, 2000 ms after the second, and no timer
\* is ever set beyond 60000 ms.
C10_FirstRetryAtFloor ==
    [][\A i \in 1..Len(cycles) :
          (cycles[i].pc = "catch" /\ lastResult' = "failure" /\ failStreak >= 1) =>
              /\ retryTimers' = AddTimer(retryTimers, BackoffAfter(failStreak - 1))
              /\ \A t \in 1..Len(retryTimers') : retryTimers'[t] <= MAX_RETRY_DELAY]_vars

\* The server records the client can be handed: the stored notes and the
\* records of the responses the cycles in flight hold.
KnownRecords ==
    server.store \cup
    UNION { SeqToSet(cycles[i].response.created) \cup
            SeqToSet(cycles[i].response.updated) : i \in 1..Len(cycles) }

\* C11: in every reachable state of the local store, reconciling a server
\* record a second time, through the pull loop or through the loop over
\* created and updated, gives the store the first reconciliation gave: no
\* row is added and no field changes.
C11_ReconcileTwiceIsOnce ==
    \A n \in KnownRecords :
        /\ ReconcilePulledOne(ReconcilePulledOne(notes, n), n)
               = ReconcilePulledOne(notes, n)
        /\ ReconcilePushedOne(ReconcilePushedOne(notes, n), n)
               = ReconcilePushedOne(notes, n)

\* C11 witness: a cycle has reconciled the records its POST created, one of
\* them by adding a row (the store holds more rows than the editor made);
\* reconciling the response again, or pulling the stored notes again,
\* leaves the store as it is.
C11_Witness ==
    \E i \in 1..Len(cycles) :
        /\ cycles[i].pc = "remove"
        /\ Len(cycles[i].response.created) > 1
        /\ \E r \in notes.rows : r.serverId # NULL /\ r.synced
        /\ ReconcilePushed(notes, cycles[i].response.created) = notes
        /\ ReconcilePulled(notes, cycles[i].response.created) = notes

\* C12: a note created offline has one create entry, synced = false and no
\* serverId; when the cycle that read exactly that entry ends (and nothing
\* was saved meanwhile), the queue is empty and the same local row carries
\* the id of a note stored on the server and synced = true.
C12_OfflineCreateRoundTrip ==
    [][/\ (~isOnline /\ Len(syncQueue) = 1 /\ syncQueue[1].action = "create"
           /\ notes.nextId = 2) =>
              \A r \in notes.rows : r.serverId = NULL /\ ~r.synced
       /\ \A i \in 1..Len(cycles) :
              ( /\ Finished(i)
                /\ Len(cycles[i].queue) = 1
                /\ cycles[i].queue[1].action = "create"
                /\ QueueIds \subseteq SnapshotIds(cycles[i]) ) =>
                  /\ syncQueue' = <<>>
                  /\ \E r \in notes'.rows :
                         /\ r.id = 1
                         /\ r.serverId # NULL
                         /\ HasServerNote(server'.store, r.serverId)
                         /\ r.synced]_vars

\* C13: when a cycle has removed its processed entries, every entry of its
\* snapshot that is gone from the queue was confirmed by the server: a
\* delete entry's note is no longer stored there, and a create or update
\* entry's data, or that of an entry of the same noteId, went out in the
\* POST the server answered.
C13_RemovedOnlyWhenConfirmed ==
    \A i \in Collapsed :
        LET c == cycles[i] IN
        c.pc = "pull" =>
            \A k \in 1..Len(c.queue) :
                LET e == c.queue[k] IN
                e.id \notin QueueIds =>
                    IF e.action = "delete"
                    THEN e.data.id # NULL => ~HasServerNote(server.store, e.data.id)
                    ELSE \E r \in 1..Len(Posts) :
                             \E f \in SeqToSet(c.queue) :
                                 /\ f.noteId = e.noteId
                                 /\ f.data \in SeqToSet(Posts[r].notes)

\* The ids of the local rows.
RowIds(rows) == { r.id : r \in rows }

\* C14: a step that deletes a local row whose serverId is set appends a
\* delete entry carrying that serverId to the queue; a step that deletes a
\* row that was never synced leaves the queue as it is.
C14_DeleteEnqueuesDelete ==
    [][\A r \in notes.rows :
          r.id \notin RowIds(notes'.rows) =>
              IF r.serverId # NULL
              THEN /\ Len(syncQueue') = Len(syncQueue) + 1
                   /\ syncQueue'[Len(syncQueue')].action = "delete"
                   /\ syncQueue'[Len(syncQueue')].data.id = r.serverId
              ELSE syncQueue' = syncQueue]_vars

\* C15: a save whose queue entry could not be stored ends there: the
\* callback is told of the failure and does not go on to its sync and
\* refresh steps, and it calls no triggerSync.
C15_EnqueueFailureSurfaces ==
    [][(\E title \in Titles : debouncedSaveAddFails("title", title)) =>
          /\ savePc' = "idle"
          /\ UNCHANGED callState]_vars

\* The queue entries the server has not confirmed: those in the queue, but
\* for the snapshot of a cycle that has reconciled its response and is
\* about to remove them.
Unconfirmed ==
    { e \in SeqToSet(syncQueue) :
        \A i \in 1..Len(cycles) :
            cycles[i].pc = "remove" => e.id \notin SnapshotIds(cycles[i]) }

\* C16: a local row for which an update entry is still unconfirmed in the
\* queue (filed under its serverId, or under its local id) has
\* synced = false.
C16_PendingMeansUnsynced ==
    \A r \in notes.rows :
        (\E e \in Unconfirmed :
            /\ e.action = "update"
            /\ e.noteId \in ({r.id, r.serverId} \ {NULL})) =>
                ~r.synced

StepFails(i) ==
    \/ ReadQueueFails(i)
    \/ SendDelete(i, FALSE)
    \/ \E reached \in BOOLEAN : PostSyncFails(i, reached)
    \/ PullAndFinish(i, FALSE)
    \/ PullOnly(i, FALSE)

\* C18: whichever step of a cycle fails, the cycle goes to its catch block
\* with the retry delay doubled up to the cap (from where it schedules the
\* retry and returns false).
C18_AnyFailureEndsInBackoff ==
    [][\A i \in 1..Len(cycles) : StepFails(i) =>
          /\ Len(cycles') >= i
          /\ cycles'[i].pc = "catch"
          /\ syncRetryDelay' = NextDelay(syncRetryDelay)]_vars

\* Cycle i is at its pull and the step taken ends it.
PullEnds(i) ==
    /\ cycles[i].pc \in {"pull", "pullOnly"}
    /\ Len(cycles') = Len(cycles) - 1

\* C19: lastSync changes only in the step that ends a pull whose GET
\* succeeded and whose records were all reconciled into the store, and it
\* becomes the time of that step; a pull whose GET fails leaves it unchanged.
C19_WatermarkOnlyAfterPull ==
    [][/\ lastSync' # lastSync =>
            \E i \in 1..Len(cycles) :
                /\ PullEnds(i)
                /\ ops' = ops
                /\ lastSync' = now
                /\ notes' = ReconcilePulled(notes,
                      SortedByUpdatedAt(NotesAfter(server.store, lastSync, Me)))
       /\ \A i \in 1..Len(cycles) :
             (PullEnds(i) /\ ops' < ops) => lastSync' = lastSync]_vars

\* A pull succeeded after time had passed and after the server had records
\* to hand out: the watermark is the time of that pull.
C19_Witness ==
    /\ lastSync = now
    /\ now > 0
    /\ lastResult = "success"
    /\ server.store # {}
    /\ \E r \in notes.rows : r.serverId # NULL /\ r.synced

\* Cycle i is in its catch block for a request answered 401 and the step
\* taken ends it.
UnauthorizedEnds(i) ==
    /\ cycles[i].pc = "catch"
    /\ cycles[i].error = "401"
    /\ Len(cycles') = Len(cycles) - 1

\* C20: a cycle whose request was answered 401 is not handled as a
\* transient failure: it ends without scheduling a backoff retry, and every
\* queue entry stays in the queue.
C20_UnauthorizedIsNotRetried ==
    [][\A i \in 1..Len(cycles) : UnauthorizedEnds(i) =>
          /\ retryTimers' = retryTimers
          /\ { e.id : e \in SeqToSet(syncQueue') } =
             { e.id : e \in SeqToSet(syncQueue) }]_vars

\* The cycles that hold the response of their POST.
Responded == { i \in 1..Len(cycles) : cycles[i].pc \in {"reconcile", "remove", "pull"} }

\* The positions of the batch of cycle c whose payload the route rejected on
\* its own: a conflict without serverNote carries its id, for a note of
\* another user or for a title that is empty once sanitised.
RejectedAt(c) ==
    { k \in 1..Len(c.notesToSync) :
        \E j \in 1..Len(c.response.conflicts) :
            LET cf == c.response.conflicts[j] IN
            /\ ~cf.hasServerNote
            /\ cf.id = c.notesToSync[k].id
            /\ \/ cf.reason = "Unauthorized"
               \/ ~ValidNote(sanitizeString(c.notesToSync[k].title)) }

\* The entries of the snapshot of c that carry the payload at position k.
CarriersOf(c, k) ==
    { e \in SeqToSet(c.queue) : e.action # "delete" /\ e.data = c.notesToSync[k] }

UnseenBy(c) == { e \in SeqToSet(syncQueue) : e.id \notin SnapshotIds(c) }

\* C22: while a cycle that has read a non-empty queue is in flight, no step removes
\* an entry that is not in its snapshot or changes such an entry (its retry
\* count included), and no such entry's payload is in the batch.
C22_LaterEntriesUntouched ==
    [][\A i \in 1..Len(cycles) : cycles[i].queue # <<>> =>
          \A e \in UnseenBy(cycles[i]) :
              /\ e \in SeqToSet(syncQueue')
              /\ e.data \notin SeqToSet(cycles[i].notesToSync)]_vars

\* C23: the flag is set exactly while a started cycle has not returned (it is
\* set in the step that starts the cycle, before the first await, and is not
\* cleared while the cycle has steps left), and every started cycle
\* eventually clears it, however it ends.
C23_FlagSpansTheCycle ==
    /\ [](syncInProgress <=> cycles # <<>>)
    /\ (syncInProgress ~> ~syncInProgress)

\* A cycle ended with an exception thrown inside the catch block and the
\* flag is clear.
C23_Witness ==
    /\ lastResult = "rejected"
    /\ ~syncInProgress
    /\ cycles = <<>>

\* C24: a step that starts a cycle leaves isOnline true, whatever called
\* triggerSync; the step that takes the device offline changes no cycle in
\* flight and leaves the flag as it was.
C24_NoStartWhileOffline ==
    [][/\ Len(cycles') > Len(cycles) => isOnline'
       /\ (isOnline /\ ~isOnline') => UNCHANGED <<cycles, syncInProgress>>]_vars

\* The device is offline and the cycle that was in flight has gone on to
\* its reconciliation.
C24_Witness ==
    /\ ~isOnline
    /\ syncInProgress
    /\ \E i \in 1..Len(cycles) : cycles[i].pc = "reconcile"

\* C25: the step to online sets the retry delay to the floor and calls
\* triggerSync at once (a cycle starts unless one is in flight) and touches
\* neither store; the step to offline changes isOnline only.
C25_ConnectivitySteps ==
    [][/\ (~isOnline /\ isOnline') =>
            /\ syncRetryDelay' = FLOOR_RETRY_DELAY
            /\ IF syncInProgress
               THEN UNCHANGED <<cycles, syncInProgress>>
               ELSE syncInProgress' /\ cycles' = Append(cycles, NewCycle)
            /\ UNCHANGED <<notes, syncQueue>>
       /\ (isOnline /\ ~isOnline') =>
            UNCHANGED <<syncRetryDelay, syncInProgress, cycles, syncQueue, notes,
                        retryTimers, lastSync>>]_vars

\* The device came back online after a failed cycle: the retry of that
\* cycle is still pending, nothing was ever pushed or pulled, and yet the
\* delay is at the floor and a new cycle has started.
C25_Witness ==
    /\ isOnline
    /\ syncRetryDelay = FLOOR_RETRY_DELAY
    /\ retryTimers # <<>>
    /\ server.store = {}
    /\ lastSync = 0
    /\ syncInProgress
    /\ \E i \in 1..Len(cycles) : cycles[i].pc = "read"

\* A retry timer fires while the device is offline: the timer is gone, no
\* cycle starts, no timer is added and the queue is as it was.
OfflineTimerIsDropped ==
    (~isOnline /\ Len(retryTimers') < Len(retryTimers)) =>
        /\ \E t \in 1..Len(retryTimers) : retryTimers' = RemoveAt(retryTimers, t)
        /\ UNCHANGED <<isOnline, cycles, syncInProgress, syncQueue>>

\* The device comes online after a retry timer fired offline, with entries
\* still in the queue.
OnlineAfterMissedRetry == retryMissed /\ ~isOnline /\ isOnline' /\ syncQueue # <<>>

\* C26 as stated: a retry timer that fires offline starts no cycle and
\* schedules no timer, and the next transition to online starts a cycle.
C26_MissedRetryResumesOnline ==
    [][/\ OfflineTimerIsDropped
       /\ OnlineAfterMissedRetry => cycles' = Append(cycles, NewCycle)]_vars

\* C26 amended: as above, but the transition to online starts a cycle only
\* if none is in flight; a cycle that was started while online and is still
\* in flight goes on untouched, and the flag stays set.
C26_MissedRetryResumesUnlessInFlight ==
    [][/\ OfflineTimerIsDropped
       /\ OnlineAfterMissedRetry =>
             IF syncInProgress
             THEN UNCHANGED <<cycles, syncInProgress>>
             ELSE syncInProgress' /\ cycles' = Append(cycles, NewCycle)]_vars

\* Offline, a retry timer has fired and started nothing; the entries wait.
C26_Witness ==
    /\ ~isOnline
    /\ retryMissed
    /\ cycles = <<>>
    /\ syncQueue # <<>>
    /\ lastResult = "failure"

\* The positions of the wire that hold a request of the given kind.
Sent(op) == { k \in 1..Len(wire) : wire[k].op = op }

\* C27: once the POST of the cycle in flight is on the wire, one DELETE has
\* been sent for every id of its deleteIds, in that order, and each of them
\* was sent before the POST.
C27_DeletesBeforePost ==
    \A i \in 1..Len(cycles) : \A p \in Sent("POST") :
        /\ \A d \in Sent("DELETE") : d < p
        /\ [k \in 1..Cardinality(Sent("DELETE")) |-> wire[k].id] = cycles[i].deleteIds

\* A cycle with a queued delete and a queued update has sent both requests.
C27_Witness ==
    /\ cycles # <<>>
    /\ Sent("DELETE") # {}
    /\ Sent("POST") # {}

\* What the server answered to the requests of one address, in order.
AnswersTo(ip) == SelectSeq(answers, LAMBDA a : a.ip = ip)

\* C28: of the requests an address sends within 15 minutes of its first
\* one, the k-th request to the authentication routes is admitted exactly
\* if k <= 5, however many requests the address made to other routes (fewer
\* than 100 here).
C28_AuthLimitIsItsOwn ==
    \A ip \in Ips :
        LET s == AnswersTo(ip) IN
        \A j \in 1..Len(s) :
            (s[j].path = "auth" /\ s[j].at <= s[1].at + WINDOW_MS) =>
                LET k == Cardinality({ m \in 1..j : s[m].path = "auth" }) IN
                s[j].admitted <=> k <= AUTH_MAX_REQUESTS

\* The records a pull of the current state would be handed.
Pulled == NotesAfter(server.store, lastSync, Me)

\* C29: when a pull ends, a pulled record whose id is no local serverId and
\* whose title is that of a local row without serverId has been adopted by
\* one of the rows that were there, as the push path would have done, and
\* no row was added for it.
C29_PullAdoptsByTitle ==
    [][\A i \in 1..Len(cycles) : (PullEnds(i) /\ ops' = ops) =>
          \A n \in Pulled :
              (ByServerId(notes.rows, n.id) = {} /\ ByTitleUnsynced(notes.rows, n.title) # {}) =>
                  \E r \in notes'.rows : r.serverId = n.id /\ r.id \in RowIds(notes.rows)]_vars

\* C30: while a retry timer is pending, a step starts a cycle only if it is
\* that timer firing or the transition to online (or the one call made a
\* second after the page loaded); the periodic timer and a local save start
\* none.
C30_NoStartDuringBackoffWait ==
    [][(retryTimers # <<>> /\ Len(cycles') > Len(cycles)) =>
          \/ \E t \in 1..Len(retryTimers) : retryTimers' = RemoveAt(retryTimers, t)
          \/ (~isOnline /\ isOnline')
          \/ (startupTimer /\ ~startupTimer')]_vars

\* The create and update entries of a snapshot for one identity that carry
\* the latest timestamp among them.
Newest(queue, noteId) ==
    { e \in SeqToSet(SameNote(queue, noteId)) :
        \A f \in SeqToSet(SameNote(queue, noteId)) : f.timestamp <= e.timestamp }

\* C31: for every identity a cycle sends a payload for, the entry the cycle
\* selected is, of the identity's create and update entries of latest
\* timestamp, the one of greatest entry id, and its data is in the batch.
C31_TieGoesToLastInserted ==
    \A i \in Collapsed :
        LET c == cycles[i] IN
        \A n \in c.processedIds \ {NULL} :
            /\ \A e \in Newest(c.queue, n) : e.id <= Latest(c.queue, n).id
            /\ Latest(c.queue, n).data \in SeqToSet(c.notesToSync)

\* C32: a local row that has a serverId keeps it for as long as the row
\* exists: no step (a save, the reconciliation of a push or of a pull) sets
\* it back to null or to another value.
C32_ServerIdIsKept ==
    [][\A r \in notes.rows : r.serverId # NULL =>
          \A s \in notes'.rows : s.id = r.id => s.serverId = r.serverId]_vars

\* The notes of the user that the server stores.
MyServerNotes == { n \in server.store : n.userId = Me }

\* C33: one note was created locally and nothing else was ever queued (the
\* first entry of a session that starts with empty stores is the create
\* entry of the first note): whatever cycles ran, failed and were retried,
\* the server stores at most one note.
C33_OneCreateOneServerNote ==
    nextQueueId <= 2 => Cardinality(MyServerNotes) <= 1

\* The note of the given title is neither in the local store nor on the
\* server.
Gone(title) ==
    /\ \A r \in notes.rows : r.title # title
    /\ \A n \in MyServerNotes : n.title # title

\* C34: in a session where no note is created and no title is edited, a
\* note that is gone from the local store and from the server stays gone:
\* no step stores a note of its title on the server or inserts a row of its
\* title into the local store.
C34_DeletedStaysDeleted ==
    [][\A title \in Titles : Gone(title) => Gone(title)']_vars

\* The ids the entries of a run can have.
EntryIds == 1..(MaxDrainOps + 1)

\* C35: on a device that stays online, where requests fail finitely often
\* and the timers are scheduled fairly, every entry that is in the queue is
\* eventually out of it.
C35_QueueDrains ==
    \A id \in EntryIds : (id \in QueueIds) ~> (id \notin QueueIds)

\* A step in which cycle i runs its two loops over the response of its POST.
Reconciles(i) ==
    /\ cycles[i].pc = "reconcile"
    /\ Len(cycles') >= i
    /\ cycles'[i].pc = "remove"

\* C36: when a cycle has reconciled the response of its POST, every local
\* row of a note whose payload won on the server (the note is in updated)
\* shows the title and the content of that payload, as the user saved them.
C36_RoundTripKeepsText ==
    [][\A i \in 1..Len(cycles) : Reconciles(i) =>
          LET c == cycles[i] IN
          \A k \in 1..Len(c.notesToSync) :
              \A u \in SeqToSet(c.response.updated) :
                  (c.notesToSync[k].id # NULL /\ u.id = c.notesToSync[k].id) =>
                      \A r \in notes'.rows :
                          r.serverId = u.id =>
                              /\ r.title = c.notesToSync[k].title
                              /\ r.content = c.notesToSync[k].content]_vars

\* C37: whatever array a request carried, the answer lists every submitted
\* note once: created, updated and conflicts together have as many elements
\* as the array.
C37_EveryNoteInOneList ==
    \A k \in 1..Len(answers) :
        Len(answers[k].created) + Len(answers[k].updated) + Len(answers[k].conflicts)
            = Len(answers[k].body)

\* The delete entries of a snapshot whose payload carries no server id.
UnsyncedDeletes(queue) ==
    { e \in SeqToSet(queue) : e.action = "delete" /\ e.data.id = NULL }

\* C38: when a cycle that processed its entries ends with success, no
\* delete entry without server id that the cycle had read is left in the
\* queue.
C38_UnsyncedDeleteIsRemoved ==
    [][\A i \in 1..Len(cycles) : Finished(i) =>
          \A e \in UnsyncedDeletes(cycles[i].queue) :
              e.id \notin { f.id : f \in SeqToSet(syncQueue') }]_vars

\* C39: at most one retry timer is pending.
C39_OneRetryPending == Len(retryTimers) <= 1

\* C40: the retry delay is never below 1000 ms and never above 60000 ms.
C40_DelayWithinBounds ==
    /\ FLOOR_RETRY_DELAY <= syncRetryDelay
    /\ syncRetryDelay <= MAX_RETRY_DELAY

\* A cycle has failed with the delay already at the ceiling: its catch block
\* has computed the new delay, which is the ceiling again.
C40_Witness ==
    \E i \in 1..Len(cycles) :
        /\ cycles[i].pc = "catch"
        /\ failStreak = 7
        /\ syncRetryDelay = MAX_RETRY_DELAY
        /\ retryTimers # <<>>
        /\ retryTimers[Len(retryTimers)] = MAX_RETRY_DELAY

====
